---- MODULE Spec2Model ----
(***************************************************************************)
(* Model of plugins/modules/postgresql_set.py: one run of the module       *)
(* (main) against a PostgreSQL server holding one configuration parameter. *)
(*                                                                         *)
(* Literals are sequences of one-character strings, so that the parsing    *)
(* done by pretty_to_bytes and by the shorthand rewrite is computed, not   *)
(* assumed.  Python values are tagged records:                             *)
(*   [t |-> "none"], [t |-> "str", s |-> chars],                           *)
(*   [t |-> "int", mb |-> m, b |-> r]   the integer m * 2^20 + r, r < 2^20 *)
(*   [t |-> "float", mb, b, s |-> fraction digits, last one not "0"]       *)
(* Python integers are unbounded; the pair (mb, b) keeps 1024^4 and the    *)
(* byte amounts of param_get exact within 32-bit integers.                 *)
(***************************************************************************)
EXTENDS Integers, Sequences, FiniteSets, TLC

VARIABLES
    \* ---- the server (the engine the module talks to) ----
    kind,            \* which parameter the run names: "kB", "MB", "bool", "absent"
    ctx,             \* pg_settings.context of the parameter
    ver,             \* db_connection.server_version
    live,            \* the live setting, in the parameter's own unit (bool: 0/1)
    auto,            \* postgresql.auto.conf entry: <<>> (none) or <<setting>>
    \* ---- the module's inputs ----
    value,           \* module.params['value'] as given: none or a string
    reset,           \* module.params['reset']
    check_mode,      \* module.check_mode
    \* ---- the run ----
    pc,              \* position of main
    val,             \* main's local `value` after the rewrites of lines 360-367, 411-414
    res,             \* result of the first param_get
    setarg,          \* the value handed to param_set
    changed,         \* main's local `changed`
    restart_required,\* main's local `restart_required`
    kw,              \* the result dictionary
    conn,            \* number of open connections
    nConn,           \* connections opened in this run
    warn,            \* the module.warn of this run ("" when there is none)
    nFetch,          \* param_get calls completed in this run
    nOverride,       \* ALTER SYSTEM commands accepted in this run
    nReload,         \* pg_reload_conf() commands accepted in this run
    err,             \* why the run failed ("" when it did not)
    \* ---- history ----
    prev,            \* summary of the run before this one
    \* ---- pretty_to_bytes called on its own ----
    arg,             \* the literal passed
    ret              \* what it returned

server == <<kind, ctx, ver, live, auto>>
inputs == <<value, reset, check_mode>>
locals == <<val, res, setarg, changed, restart_required, kw>>
counts == <<nFetch, nOverride, nReload>>
aside == <<arg, ret>>
vars == <<kind, ctx, ver, live, auto, value, reset, check_mode, pc, val, res,
          setarg, changed, restart_required, kw, conn, nConn, warn, nFetch,
          nOverride, nReload, err, prev, arg, ret>>

-----------------------------------------------------------------------------
(* Characters and Python values *)

Digits == <<"0", "1", "2", "3", "4", "5", "6", "7", "8", "9">>
LowerLetters == <<"a", "b", "c", "d", "e", "f", "g", "h", "i", "j", "k", "l", "m",
                  "n", "o", "p", "q", "r", "s", "t", "u", "v", "w", "x", "y", "z">>
UpperLetters == <<"A", "B", "C", "D", "E", "F", "G", "H", "I", "J", "K", "L", "M",
                  "N", "O", "P", "Q", "R", "S", "T", "U", "V", "W", "X", "Y", "Z">>

Range(f) == {f[i] : i \in DOMAIN f}
IndexOf(f, c) == CHOOSE i \in DOMAIN f : f[i] = c

\* str.isdigit / str.isalpha on one character
IsDigitChar(c) == c \in Range(Digits)
IsAlphaChar(c) == c \in Range(LowerLetters) \cup Range(UpperLetters)
DigitVal(c) == IndexOf(Digits, c) - 1

\* str.isdigit: non-empty and every character a digit
IsDigitStr(s) == s # <<>> /\ \A i \in DOMAIN s : IsDigitChar(s[i])

UpperChar(c) == IF c \in Range(LowerLetters) THEN UpperLetters[IndexOf(LowerLetters, c)] ELSE c
LowerChar(c) == IF c \in Range(UpperLetters) THEN LowerLetters[IndexOf(UpperLetters, c)] ELSE c
\* str.upper / str.lower
StrUpper(s) == [i \in DOMAIN s |-> UpperChar(s[i])]
StrLower(s) == [i \in DOMAIN s |-> LowerChar(s[i])]

\* s[-n:] and s[:-n] for n <= Len(s)
LastN(s, n) == SubSeq(s, Len(s) - n + 1, Len(s))
DropLastN(s, n) == SubSeq(s, 1, Len(s) - n)

PyNone == [t |-> "none"]
PyStr(s) == [t |-> "str", s |-> s]
PyInt(m, r) == [t |-> "int", mb |-> m, b |-> r]
PyFloat(m, r, f) == [t |-> "float", mb |-> m, b |-> r, s |-> f]
\* the ValueError float() raises, which nothing in the module catches
ValueError == [t |-> "ValueError"]

\* 2^20, the radix of the integer pairs
Mega == 1024 * 1024
\* x * k for a Python integer x and 0 <= k <= 1024
IntMul(x, k) ==
    LET lo == x.b * k
    IN  PyInt(x.mb * k + (lo \div Mega), lo % Mega)
\* x + d for a Python integer x and a digit d
IntAdd(x, d) ==
    LET lo == x.b + d
    IN  PyInt(x.mb + (lo \div Mega), lo % Mega)
IntZero == PyInt(0, 0)
IntIsPositive(x) == x.mb > 0 \/ x.b > 0

\* int(s) for a string of digits
RECURSIVE DigitsToInt(_)
DigitsToInt(s) ==
    IF s = <<>> THEN IntZero
    ELSE IntAdd(IntMul(DigitsToInt(DropLastN(s, 1)), 10), DigitVal(s[Len(s)]))

\* str(n) for a small natural number n
RECURSIVE NatToStr(_)
NatToStr(n) ==
    IF n < 10 THEN <<Digits[n + 1]>>
    ELSE NatToStr(n \div 10) \o <<Digits[(n % 10) + 1]>>

\* str(x) for a Python integer x: the decimal digits of x.mb * 2^20 + x.b
RECURSIVE IntDivMod10(_)
IntDivMod10(x) ==
    \* <<quotient, remainder>> of x by 10
    LET qm == x.mb \div 10
        rm == x.mb % 10
        lo == rm * Mega + x.b
    IN  <<PyInt(qm + ((lo \div 10) \div Mega), (lo \div 10) % Mega), lo % 10>>
RECURSIVE IntToStr(_)
IntToStr(x) ==
    IF x.mb = 0 /\ x.b < 10 THEN <<Digits[x.b + 1]>>
    ELSE LET qr == IntDivMod10(x) IN IntToStr(qr[1]) \o <<Digits[qr[2] + 1]>>

\* the leading run of digits of s (lines 277-284)
RECURSIVE LeadingDigits(_)
LeadingDigits(s) ==
    IF s = <<>> \/ ~IsDigitChar(s[1]) THEN <<>>
    ELSE <<s[1]>> \o LeadingDigits(Tail(s))

\* the digits of s after dropping trailing zeros
RECURSIVE StripZeros(_)
StripZeros(s) ==
    IF s # <<>> /\ s[Len(s)] = "0" THEN StripZeros(DropLastN(s, 1)) ELSE s

\* float(s) for s that starts with a digit and is not a string of digits:
\* digits "." digits is a number, anything else over the model's alphabet
\* (digits, letters other than an exponent, ".", "-") raises ValueError.
\* A float with a zero fraction compares equal to the integer, so it is the integer.
PyFloatOf(s) ==
    LET ip == LeadingDigits(s)
        rest == SubSeq(s, Len(ip) + 1, Len(s))
    IN  IF rest # <<>> /\ rest[1] = "." /\ \A i \in 2..Len(rest) : IsDigitChar(rest[i])
        THEN LET fr == StripZeros(Tail(rest))
                 n == DigitsToInt(ip)
             IN  IF fr = <<>> THEN n ELSE PyFloat(n.mb, n.b, fr)
        ELSE ValueError

-----------------------------------------------------------------------------
(* Value Normalizer: pretty_to_bytes and the rewrites of main *)

\* Python truthiness of a none-or-string value (`not pretty_val`, `if value:`)
Truthy(v) == v.t = "str" /\ v.s # <<>>

\* the suffix multiplication with the GB branch a copy of the MB branch
SuffixBytes_GBasMB(s, num_part) ==
    IF Len(s) >= 2
    THEN CASE LastN(s, 2) = <<"k", "B">> -> IntMul(num_part, 1024)
           [] LastN(s, 2) = <<"M", "B">> -> IntMul(IntMul(num_part, 1024), 1024)
           [] LastN(s, 2) = <<"G", "B">> -> IntMul(IntMul(num_part, 1024), 1024)
           [] LastN(s, 2) = <<"T", "B">> ->
                  IntMul(IntMul(IntMul(IntMul(num_part, 1024), 1024), 1024), 1024)
           [] OTHER -> PyNone
    ELSE PyNone
\* the suffix multiplication of lines 290-301: None when no two-letter suffix matches
SuffixBytes(s, num_part) ==
    IF Len(s) >= 2
    THEN CASE LastN(s, 2) = <<"k", "B">> -> IntMul(num_part, 1024)
           [] LastN(s, 2) = <<"M", "B">> -> IntMul(IntMul(num_part, 1024), 1024)
           [] LastN(s, 2) = <<"G", "B">> -> IntMul(IntMul(IntMul(num_part, 1024), 1024), 1024)
           [] LastN(s, 2) = <<"T", "B">> ->
                  IntMul(IntMul(IntMul(IntMul(num_part, 1024), 1024), 1024), 1024)
           [] OTHER -> PyNone
    ELSE PyNone

\* `not val_in_bytes and 'B' in pretty_val[-1]` (line 304): None and 0 are both falsy
TrailingB(s, val_in_bytes) ==
    (val_in_bytes = PyNone \/ val_in_bytes = IntZero) /\ s[Len(s)] = "B"

pretty_to_bytes(pretty_val) ==
    IF ~Truthy(pretty_val) THEN pretty_val
    ELSE LET s == pretty_val.s IN
         IF ~IsDigitChar(s[1]) THEN pretty_val
         ELSE IF ~IsAlphaChar(s[Len(s)])
              THEN IF IsDigitStr(s) THEN DigitsToInt(s) ELSE PyFloatOf(s)
              ELSE LET num_part == DigitsToInt(LeadingDigits(s))
                       two == SuffixBytes(s, num_part)
                       val_in_bytes == IF TrailingB(s, two) THEN num_part ELSE two
                   IN  IF val_in_bytes # PyNone THEN val_in_bytes ELSE pretty_val

LOWERCASE_SIZE_UNITS == {<<"m", "b">>, <<"g", "b">>, <<"t", "b">>}

\* lines 360-367: 1mb -> 1MB, 1b -> 1B
Shorthand(v) ==
    IF Truthy(v)
    THEN LET s == v.s IN
         IF Len(s) > 2 /\ IsDigitStr(DropLastN(s, 2)) /\ LastN(s, 2) \in LOWERCASE_SIZE_UNITS
         THEN PyStr(StrUpper(s))
         ELSE IF Len(s) > 1 /\ s[Len(s)] = "b" /\ IsDigitStr(DropLastN(s, 1))
              THEN PyStr(StrUpper(s))
              ELSE v
    ELSE v

L_True == <<"T", "r", "u", "e">>
L_False == <<"F", "a", "l", "s", "e">>
L_on == <<"o", "n">>
L_off == <<"o", "f", "f">>
L_default == <<"d", "e", "f", "a", "u", "l", "t">>

\* lines 221-224 and 411-414: 'True' -> 'on', 'False' -> 'off'
BoolAlias(v) ==
    IF v = PyStr(L_True) THEN PyStr(L_on)
    ELSE IF v = PyStr(L_False) THEN PyStr(L_off)
    ELSE v

\* str(value) as param_set formats it into the query (lines 315-318)
PyToStr(v) ==
    CASE v.t = "str" -> v.s
      [] v.t = "int" -> IntToStr(v)
      [] OTHER -> <<"N", "o", "n", "e">>

-----------------------------------------------------------------------------
(* The server: pg_settings, SHOW, ALTER SYSTEM, pg_reload_conf, restart *)

Contexts == {"internal", "postmaster", "sighup", "backend", "superuser-backend",
             "superuser", "user"}
Kinds == {"kB", "MB", "bool"}
U_kB == <<"k", "B">>
U_MB == <<"M", "B">>
UnitLadder == <<"k", "M", "G", "T">>

\* pg_settings.unit of the parameter: NULL for a boolean
UnitOf(k) == CASE k = "kB" -> PyStr(U_kB) [] k = "MB" -> PyStr(U_MB) [] OTHER -> PyNone
\* the rung of the parameter's own unit
BaseRung(k) == IF k = "MB" THEN 2 ELSE 1
\* pg_settings.boot_val, in the parameter's own unit: 4MB, 1GB, off
BootOf(k) == CASE k = "kB" -> 4 * 1024 [] k = "MB" -> 1024 [] OTHER -> 0

\* pg_settings.setting and boot_val: the number in the parameter's unit, as text
CatalogText(k, n) ==
    IF k = "bool" THEN (IF n = 1 THEN L_on ELSE L_off) ELSE NatToStr(n)

\* SHOW: a memory amount in the largest unit that divides it
RECURSIVE ShowMem(_, _)
ShowMem(n, rung) ==
    IF n = 0 THEN <<"0">>
    ELSE IF n % 1024 = 0 /\ rung < Len(UnitLadder) THEN ShowMem(n \div 1024, rung + 1)
    ELSE NatToStr(n) \o <<UnitLadder[rung], "B">>
ShowText(k, n) ==
    IF k = "bool" THEN (IF n = 1 THEN L_on ELSE L_off) ELSE ShowMem(n, BaseRung(k))

\* a string of digits as a number
RECURSIVE DigitsToNat(_)
DigitsToNat(s) ==
    IF s = <<>> THEN 0 ELSE DigitsToNat(DropLastN(s, 1)) * 10 + DigitVal(s[Len(s)])

RECURSIVE Pow1024(_)
Pow1024(e) == IF e = 0 THEN 1 ELSE 1024 * Pow1024(e - 1)

\* the server reading a literal for the parameter: <<setting>>, or <<>> when it
\* rejects the literal.  A bare number counts in the parameter's own unit.
ServerParse(k, lit) ==
    IF k = "bool"
    THEN CASE StrLower(lit) \in {L_on, StrLower(L_True)} -> <<1>>
           [] StrLower(lit) \in {L_off, StrLower(L_False)} -> <<0>>
           [] OTHER -> <<>>
    ELSE LET ds == LeadingDigits(lit)
             sfx == SubSeq(lit, Len(ds) + 1, Len(lit))
         IN  IF ds = <<>> \/ Len(ds) > 10 THEN <<>>
             ELSE IF sfx = <<>> THEN <<DigitsToNat(ds)>>
             ELSE IF Len(sfx) = 2 /\ sfx[2] = "B" /\ sfx[1] \in Range(UnitLadder)
                  THEN LET rung == IndexOf(UnitLadder, sfx[1]) IN
                       IF rung >= BaseRung(k)
                       THEN <<DigitsToNat(ds) * Pow1024(rung - BaseRung(k))>>
                       ELSE <<(DigitsToNat(ds) + 512) \div 1024>>
                  ELSE <<>>

\* the setting the configuration files give: the override, else the boot value
Effective(k, a) == IF a = <<>> THEN BootOf(k) ELSE a[1]

\* ALTER SYSTEM SET name = DEFAULT removes the entry, = 'literal' writes it
AlterSystemValid(k, query) == query.default \/ ServerParse(k, query.lit) # <<>>
AlterSystem(k, query) == IF query.default THEN <<>> ELSE ServerParse(k, query.lit)

\* pg_reload_conf(): a postmaster or internal parameter keeps its live setting
ReloadConf(k, c, l, a) == IF c \in {"postmaster", "internal"} THEN l ELSE Effective(k, a)
\* a restart of the server
RestartConf(k, c, l, a) == IF c = "internal" THEN l ELSE Effective(k, a)

-----------------------------------------------------------------------------
(* param_get *)

\* lines 226-240: a positive amount in kB or MB becomes bytes, anything else
\* stays the catalog's text
ToBytes(unit, text) ==
    LET n == DigitsToInt(text) IN
    IF unit = PyStr(U_kB)
    THEN (IF IntIsPositive(n) THEN IntMul(n, 1024) ELSE PyStr(text))
    ELSE IF unit = PyStr(U_MB)
    THEN (IF IntIsPositive(n) THEN IntMul(IntMul(n, 1024), 1024) ELSE PyStr(text))
    ELSE PyStr(text)

\* the unit param_get returns
UnitOut(unit) == IF unit \in {PyStr(U_kB), PyStr(U_MB)} THEN PyStr(<<"b">>) ELSE unit

\* what param_get returns for the parameter in server state (k, c, l)
param_get(k, c, l) ==
    [current_val |-> BoolAlias(PyStr(ShowText(k, l))),
     raw_val     |-> ToBytes(UnitOf(k), CatalogText(k, l)),
     unit        |-> UnitOut(UnitOf(k)),
     boot_val    |-> ToBytes(UnitOf(k), CatalogText(k, BootOf(k))),
     context     |-> c]

NoRes == [current_val |-> PyNone, raw_val |-> PyNone, unit |-> PyNone,
          boot_val |-> PyNone, context |-> ""]

-----------------------------------------------------------------------------
(* param_set *)

\* lines 315-318: the query is DEFAULT for 'default' in any case, else the literal
SetQuery(v) ==
    IF StrLower(PyToStr(v)) = L_default
    THEN [default |-> TRUE, lit |-> <<>>]
    ELSE [default |-> FALSE, lit |-> PyToStr(v)]

\* the reload issued for every context
ReloadAfterSet_Always(c) == TRUE
\* line 321: the reload follows the override unless the context is postmaster
ReloadAfterSet(c) == c # "postmaster"

-----------------------------------------------------------------------------
(* The decisions of main *)

PG_REQ_VER == 90400

\* the gate applied in execute mode only
IsInternal_ExecuteOnly(c) == c = "internal" /\ ~check_mode
\* line 421
IsInternal(c) == c = "internal"
\* line 425
RestartRequired(c) == c = "postmaster"
\* check mode comparing the literals as execute mode does
CheckModeSame_Literal(v, current_val) == v = current_val
\* line 430: the check-mode comparison
CheckModeSame(v, current_val) == pretty_to_bytes(v) = pretty_to_bytes(current_val)
\* the apply-time comparison done on canonical bytes, as check mode does it
NeedsSet_Canonical(v, current_val) ==
    v # PyNone /\ pretty_to_bytes(v) # pretty_to_bytes(current_val)
\* line 446
NeedsSet(v, current_val) == v # PyNone /\ v # current_val
\* line 453
ResetNoop(raw_val, boot_val) == raw_val = boot_val
\* line 467
IsReloadable(c) == c \in {"sighup", "superuser-backend", "backend", "superuser", "user"}
\* the recheck leaving the flag param_set returned
RecheckChanged_Optimistic(raw_val, f_raw_val) == changed
\* the recheck comparing the wrong way round
RecheckChanged_Inverted(raw_val, f_raw_val) == raw_val = f_raw_val
\* lines 476-480
RecheckChanged(raw_val, f_raw_val) == raw_val # f_raw_val

\* the result dictionary: `keys` are the keys present
NoKw == [keys |-> {}, changed |-> FALSE, restart_required |-> FALSE,
         value_pretty |-> PyNone, prev_val_pretty |-> PyNone,
         value |-> PyNone, unit |-> PyNone, context |-> ""]
Put(d, k, v) == [[d EXCEPT ![k] = v] EXCEPT !.keys = @ \cup {k}]
\* kw['value'] = dict(value=..., unit=...)
PutValue(d, v, u) == [d EXCEPT !.value = v, !.unit = u, !.keys = @ \cup {"value"}]

\* exit_json reports changed=False when the dictionary has no 'changed' key
Reported(d) == "changed" \in d.keys /\ d.changed

-----------------------------------------------------------------------------
(* Inputs and initial states *)

\* the largest amount, in GB, a run asks for or a server starts with
MaxGB == 1

L_GB(n) == NatToStr(n) \o <<"G", "B">>
L_MB(n) == NatToStr(n) \o <<"M", "B">>
L_mb(n) == NatToStr(n) \o <<"m", "b">>
L_Default == <<"D", "e", "f", "a", "u", "l", "t">>

\* the values a run may ask for, per parameter: the same amount in GB and in MB,
\* a lowercase shorthand, a boolean alias, and the DEFAULT marker in two cases
DesiredValues(k) ==
    IF k = "bool"
    THEN {L_on, L_True, L_off, L_default, L_Default}
    ELSE {L_GB(n) : n \in 1..MaxGB} \cup {L_MB(1024 * n) : n \in 1..MaxGB}
         \cup {L_mb(32), L_default, L_Default}

\* the settings a server may start with, in the parameter's unit
InitialSettings(k) ==
    CASE k = "kB" -> {BootOf(k)} \cup {n * 1024 * 1024 : n \in 1..MaxGB}
      [] k = "MB" -> {BootOf(k), 32} \cup {n * 1024 : n \in 1..MaxGB}
      [] k = "bool" -> {0, 1}
      [] OTHER -> {0}

\* a server older than PG_REQ_VER and one that is not
Versions == {PG_REQ_VER - 100, PG_REQ_VER}

NoPrev == [valid |-> FALSE, value |-> PyNone]

Idle ==
    /\ pc = "idle"
    /\ value = PyNone /\ reset = FALSE /\ check_mode = FALSE
    /\ val = PyNone /\ res = NoRes /\ setarg = PyNone
    /\ changed = FALSE /\ restart_required = FALSE /\ kw = NoKw
    /\ conn = 0 /\ nFetch = 0 /\ nOverride = 0 /\ nReload = 0 /\ err = ""
    /\ nConn = 0 /\ warn = ""

Init ==
    /\ kind \in Kinds \cup {"absent"}
    /\ ctx \in (IF kind = "absent" THEN {""} ELSE Contexts)
    /\ ver \in Versions
    /\ live \in InitialSettings(kind)
    /\ auto \in (IF kind = "absent" THEN {<<>>}
                 ELSE {<<>>} \cup {<<n>> : n \in InitialSettings(kind)})
    /\ Idle
    /\ prev = NoPrev
    /\ arg = PyNone /\ ret = PyNone

-----------------------------------------------------------------------------
(* main, one action per stretch between two calls to the server *)

Terminal == pc \in {"idle", "done", "failed"}

Fail(why) == pc' = "failed" /\ err' = why

\* the validation without the test of line 372
Validate_NoMissing(v, r) == IF v # PyNone /\ r THEN "mutually_exclusive" ELSE ""
\* lines 369-373: the error for both or neither of value and reset, "" for one of them
Validate(v, r) ==
    IF v # PyNone /\ r THEN "mutually_exclusive"
    ELSE IF v = PyNone /\ ~r THEN "missing"
    ELSE ""

\* lines 350-373: read the parameters, rewrite the shorthand, refuse both or neither
Start(v, r, c) ==
    /\ Terminal
    /\ value' = v /\ reset' = r /\ check_mode' = c
    /\ prev' = IF pc = "done" /\ ~check_mode /\ value # PyNone /\ Reported(kw)
               THEN [valid |-> TRUE, value |-> value]
               ELSE NoPrev
    /\ val' = Shorthand(v)
    /\ res' = NoRes /\ setarg' = PyNone /\ changed' = FALSE
    /\ restart_required' = FALSE /\ kw' = NoKw
    /\ conn' = 0 /\ nFetch' = 0 /\ nOverride' = 0 /\ nReload' = 0
    /\ nConn' = 0 /\ warn' = ""
    /\ IF Validate(Shorthand(v), r) # ""
       THEN Fail(Validate(Shorthand(v), r))
       ELSE pc' = "connect" /\ err' = ""
    /\ UNCHANGED <<server, aside>>

\* line 384
TooOld(v) == v < PG_REQ_VER

\* the old-version result claiming a change
OldVersionKw_Changed ==
    Put(Put(Put(PutValue(Put(NoKw, "changed", TRUE), PyStr(<<>>), PyStr(<<>>)),
                "restart_required", FALSE),
            "value_pretty", PyStr(<<>>)),
        "prev_val_pretty", PyStr(<<>>))
\* lines 381-395: the result for a server older than PG_REQ_VER
OldVersionKw ==
    Put(Put(Put(PutValue(Put(NoKw, "changed", FALSE), PyStr(<<>>), PyStr(<<>>)),
                "restart_required", FALSE),
            "value_pretty", PyStr(<<>>)),
        "prev_val_pretty", PyStr(<<>>))

\* lines 375-401: connect, check the version
Connect(ok) ==
    /\ pc = "connect"
    /\ IF ~ok
       THEN Fail("connect") /\ UNCHANGED <<kw, conn, nConn, warn>>
       ELSE IF TooOld(ver)
       THEN /\ warn' = "version"
            /\ kw' = OldVersionKw
            /\ nConn' = nConn + 1 /\ conn' = 0
            /\ pc' = "done" /\ UNCHANGED err
       ELSE /\ kw' = Put(NoKw, "restart_required", FALSE)
            /\ nConn' = nConn + 1 /\ conn' = 1
            /\ pc' = "fetch" /\ UNCHANGED <<err, warn>>
    /\ UNCHANGED <<server, inputs, val, res, setarg, changed, restart_required,
                   counts, prev, aside>>

\* lines 416-418
FetchedKw(d, r) ==
    Put(Put(Put(d, "prev_val_pretty", r.current_val), "value_pretty", r.current_val),
        "context", r.context)

\* check mode reporting the requested value as the value
CheckModeKw_Requested(d, v, r, rr) ==
    LET c == IF CheckModeSame(v, r.current_val)
             THEN Put(d, "changed", FALSE)
             ELSE Put(Put(d, "value_pretty", v), "changed", TRUE)
    IN  Put(PutValue(c, v, r.unit), "restart_required", rr)
\* lines 428-443: the result of check mode
CheckModeKw(d, v, r, rr) ==
    LET c == IF CheckModeSame(v, r.current_val)
             THEN Put(d, "changed", FALSE)
             ELSE Put(Put(d, "value_pretty", v), "changed", TRUE)
    IN  Put(PutValue(c, r.raw_val, r.unit), "restart_required", rr)

\* pretty_to_bytes raises on one of the two values check mode compares
CheckModeRaises(v, current_val) ==
    pretty_to_bytes(v) = ValueError \/ pretty_to_bytes(current_val) = ValueError

\* lines 403-461: the first param_get, then everything up to the first command
Fetch(ok) ==
    /\ pc = "fetch"
    /\ UNCHANGED <<server, inputs, conn, nConn, warn, nOverride, nReload, prev,
                   changed, aside>>
    /\ IF ~ok \/ kind = "absent"
       THEN /\ Fail(IF kind = "absent" /\ ok THEN "no_such_parameter" ELSE "unable_to_get")
            /\ UNCHANGED <<val, res, setarg, restart_required, kw, nFetch>>
       ELSE LET r == param_get(kind, ctx, live)
                v == BoolAlias(val)
                d == FetchedKw(kw, r)
                rr == RestartRequired(r.context)
            IN  /\ res' = r /\ val' = v /\ nFetch' = nFetch + 1
                /\ IF IsInternal(r.context)
                   THEN /\ Fail("internal") /\ kw' = d
                        /\ UNCHANGED <<setarg, restart_required>>
                   ELSE /\ restart_required' = rr
                        /\ IF check_mode
                           THEN /\ UNCHANGED setarg
                                /\ IF CheckModeRaises(v, r.current_val)
                                   THEN Fail("ValueError") /\ kw' = d
                                   ELSE /\ kw' = CheckModeKw(d, v, r, rr)
                                        /\ pc' = "done" /\ UNCHANGED err
                           ELSE IF NeedsSet(v, r.current_val)
                           THEN /\ setarg' = v /\ kw' = d
                                /\ pc' = "override" /\ UNCHANGED err
                           ELSE IF reset
                           THEN IF ResetNoop(r.raw_val, r.boot_val)
                                THEN /\ kw' = PutValue(d, r.raw_val, r.unit)
                                     /\ pc' = "done" /\ UNCHANGED <<err, setarg>>
                                ELSE /\ setarg' = r.boot_val /\ kw' = d
                                     /\ pc' = "override" /\ UNCHANGED err
                           ELSE /\ kw' = d
                                /\ pc' = "close" /\ UNCHANGED <<err, setarg>>

\* lines 447-449 and 461: param_set has returned True
AfterParamSet ==
    /\ changed' = TRUE
    /\ kw' = IF NeedsSet(val, res.current_val) THEN Put(kw, "value_pretty", val) ELSE kw
    /\ pc' = "close" /\ UNCHANGED err

\* the override with its failure swallowed: the reload is sent all the same
Override_IgnoreFailure(ok) ==
    /\ pc = "override"
    /\ UNCHANGED <<kind, ctx, ver, live, inputs, val, res, setarg, restart_required,
                   conn, nConn, warn, nFetch, nReload, prev, aside>>
    /\ IF ok /\ AlterSystemValid(kind, SetQuery(setarg))
       THEN /\ auto' = AlterSystem(kind, SetQuery(setarg))
            /\ nOverride' = nOverride + 1
            /\ IF ReloadAfterSet(ctx)
               THEN pc' = "reload" /\ UNCHANGED <<err, changed, kw>>
               ELSE AfterParamSet
       ELSE /\ pc' = "reload"
            /\ UNCHANGED <<auto, nOverride, err, changed, kw>>

\* lines 315-319: ALTER SYSTEM
Override(ok) ==
    /\ pc = "override"
    /\ UNCHANGED <<kind, ctx, ver, live, inputs, val, res, setarg, restart_required,
                   conn, nConn, warn, nFetch, nReload, prev, aside>>
    /\ IF ok /\ AlterSystemValid(kind, SetQuery(setarg))
       THEN /\ auto' = AlterSystem(kind, SetQuery(setarg))
            /\ nOverride' = nOverride + 1
            /\ IF ReloadAfterSet(ctx)
               THEN pc' = "reload" /\ UNCHANGED <<err, changed, kw>>
               ELSE AfterParamSet
       ELSE Fail("unable_to_set") /\ UNCHANGED <<auto, nOverride, changed, kw>>

\* lines 321-322: SELECT pg_reload_conf()
Reload(ok) ==
    /\ pc = "reload"
    /\ UNCHANGED <<kind, ctx, ver, auto, inputs, val, res, setarg, restart_required,
                   conn, nConn, warn, nFetch, nOverride, prev, aside>>
    /\ IF ok
       THEN /\ live' = ReloadConf(kind, ctx, live, auto)
            /\ nReload' = nReload + 1
            /\ AfterParamSet
       ELSE Fail("unable_to_set") /\ UNCHANGED <<live, nReload, changed, kw>>

\* lines 494-495: the warning of an execute-mode run
ExitWarn(ch, rr) == IF rr /\ ch THEN "restart" ELSE ""
\* lines 491-497: the result of an execute-mode run
ExitKw(d, ch, rr) == Put(Put(d, "changed", ch), "restart_required", rr)

\* the close with the recheck skipped when no command was issued
Close_RecheckOnlyAfterSet ==
    /\ pc = "close"
    /\ conn' = 0
    /\ IF IsReloadable(res.context) /\ nOverride >= 1
       THEN pc' = "recheck" /\ UNCHANGED <<kw, warn>>
       ELSE /\ pc' = "done" /\ kw' = ExitKw(kw, changed, restart_required)
            /\ warn' = ExitWarn(changed, restart_required)
    /\ UNCHANGED <<server, inputs, val, res, setarg, changed, restart_required,
                   counts, nConn, err, prev, aside>>

\* lines 463-467 and, for a context that is not rechecked, 491-497
Close ==
    /\ pc = "close"
    /\ conn' = 0
    /\ IF IsReloadable(res.context)
       THEN pc' = "recheck" /\ UNCHANGED <<kw, warn>>
       ELSE /\ pc' = "done" /\ kw' = ExitKw(kw, changed, restart_required)
            /\ warn' = ExitWarn(changed, restart_required)
    /\ UNCHANGED <<server, inputs, val, res, setarg, changed, restart_required,
                   counts, nConn, err, prev, aside>>

\* lines 476-486: the result after the second param_get
RecheckKw(d, r, f) ==
    PutValue(Put(d, "value_pretty", f.current_val), f.raw_val, r.unit)

\* lines 468-497: reconnect, the second param_get, the result
Recheck(okc, okg) ==
    /\ pc = "recheck"
    /\ UNCHANGED <<server, inputs, val, res, setarg, restart_required, nOverride,
                   nReload, prev, aside>>
    /\ IF ~okc
       THEN Fail("connect") /\ UNCHANGED <<conn, nConn, warn, nFetch, changed, kw>>
       ELSE IF ~okg
       THEN /\ Fail("unable_to_get") /\ conn' = 1 /\ nConn' = nConn + 1
            /\ UNCHANGED <<warn, nFetch, changed, kw>>
       ELSE LET f == param_get(kind, ctx, live)
                ch == RecheckChanged(res.raw_val, f.raw_val)
            IN  /\ nFetch' = nFetch + 1
                /\ changed' = ch
                /\ kw' = ExitKw(RecheckKw(kw, res, f), ch, restart_required)
                /\ warn' = ExitWarn(ch, restart_required)
                /\ conn' = 0 /\ nConn' = nConn + 1
                /\ pc' = "done" /\ UNCHANGED err

\* the server is restarted between two runs
Restart ==
    /\ pc \in {"done", "failed"}
    /\ live' = RestartConf(kind, ctx, live, auto)
    /\ pc' = "idle"
    /\ value' = PyNone /\ reset' = FALSE /\ check_mode' = FALSE
    /\ val' = PyNone /\ res' = NoRes /\ setarg' = PyNone
    /\ changed' = FALSE /\ restart_required' = FALSE /\ kw' = NoKw
    /\ conn' = 0 /\ nFetch' = 0 /\ nOverride' = 0 /\ nReload' = 0 /\ err' = ""
    /\ nConn' = 0 /\ warn' = ""
    /\ prev' = NoPrev
    /\ UNCHANGED <<kind, ctx, ver, auto, aside>>

Requests(k) == {PyNone} \cup {PyStr(l) : l \in DesiredValues(k)}

Next ==
    \/ \E v \in Requests(kind), r \in BOOLEAN, c \in BOOLEAN : Start(v, r, c)
    \/ \E ok \in BOOLEAN : Connect(ok)
    \/ \E ok \in BOOLEAN : Fetch(ok)
    \/ \E ok \in BOOLEAN : Override(ok)
    \/ \E ok \in BOOLEAN : Reload(ok)
    \/ Close
    \/ \E okc \in BOOLEAN, okg \in BOOLEAN : Recheck(okc, okg)
    \/ Restart

Spec == Init /\ [][Next]_vars

-----------------------------------------------------------------------------
(* pretty_to_bytes called on its own, on every literal up to a length *)

\* the longest literal passed
MaxLen == 4
\* digits, the unit letters, a letter that is no unit, a decimal point
Alphabet == {"0", "1", "k", "M", "G", "T", "B", "s", "."}

RECURSIVE Literals(_)
Literals(n) ==
    IF n = 0 THEN {<<>>}
    ELSE LET shorter == Literals(n - 1)
         IN  shorter \cup {Append(l, c) : l \in shorter, c \in Alphabet}

\* no call has returned yet
Pending == [t |-> "pending"]

InitFn ==
    /\ kind = "absent" /\ ctx = "" /\ ver = PG_REQ_VER /\ live = 0 /\ auto = <<>>
    /\ Idle
    /\ prev = NoPrev
    /\ arg \in {PyStr(l) : l \in Literals(MaxLen)}
    /\ ret = Pending

\* lines 251-310: one call of pretty_to_bytes
Normalize ==
    /\ ret = Pending
    /\ ret' = pretty_to_bytes(arg)
    /\ UNCHANGED <<server, inputs, locals, counts, pc, conn, nConn, warn, err, prev, arg>>

NextFn == Normalize

SpecFn == InitFn /\ [][NextFn]_vars

-----------------------------------------------------------------------------
(* Properties *)

\* a run that returned a result after reading the parameter
Done == pc = "done" /\ nFetch >= 1
\* what param_get would read from the server as it is now
Now == param_get(kind, ctx, live)
\* the run asked for a value, which after the rewrites is the string `val`
AskedValue == val.t = "str"
\* the requested literal and the display token differ as text and agree in bytes
SameBytesOtherText ==
    /\ AskedValue /\ val # res.current_val
    /\ pretty_to_bytes(val).t = "int"
    /\ pretty_to_bytes(val) = pretty_to_bytes(res.current_val)
\* the run before this one was an execute-mode run for the same literal that
\* reported changed=true, and the server was not restarted in between
SecondOfTwo == Done /\ ~check_mode /\ prev.valid /\ prev.value = value

\* C1 (as stated): for every changeable context class, postmaster included, an
\* execute-mode run that follows a run for the same literal that reported
\* changed=true, with no restart in between, reports changed=false.
C1_IdempotentEveryClass == SecondOfTwo => ~Reported(kw)

\* C1 (amended): for every reloadable context class (sighup, backend,
\* superuser-backend, superuser, user), an execute-mode run that follows a run
\* for the same literal that reported changed=true, with no restart in between,
\* reports changed=false.
C1_IdempotentReloadable == (SecondOfTwo /\ IsReloadable(ctx)) => ~Reported(kw)

\* the second run of a pair issued the override again and still reported changed=false
C1_Witness == SecondOfTwo /\ IsReloadable(ctx) /\ nOverride = 1 /\ ~Reported(kw)

\* C2: for a reloadable context class, the changed flag of an execute-mode result
\* that went through the second fetch is exactly (raw value of the first fetch #
\* raw value of the second fetch), and value_pretty and value are the second
\* fetch's, whatever param_set returned.
C2_RecheckIsAuthoritative ==
    (Done /\ ~check_mode /\ IsReloadable(ctx) /\ nFetch = 2) =>
        /\ {"changed", "value_pretty", "value"} \subseteq kw.keys
        /\ kw.changed = (res.raw_val # Now.raw_val)
        /\ kw.value_pretty = Now.current_val
        /\ kw.value = Now.raw_val /\ kw.unit = Now.unit

\* param_set returned True and the recheck turned the flag to false
C2_Witness ==
    Done /\ ~check_mode /\ IsReloadable(ctx) /\ nFetch = 2 /\ nOverride = 1
         /\ nReload = 1 /\ ~Reported(kw)

\* C3 (as stated): in execute mode, for every changeable context class, a literal
\* that differs from the display token as text and equals it in bytes triggers
\* an override and the run reports changed=true.
C3_SameBytesChangedEveryClass ==
    (Done /\ ~check_mode /\ SameBytesOtherText) => (nOverride = 1 /\ Reported(kw))

\* C3 (amended): in execute mode, for every changeable context class, a literal
\* that differs from the display token as text and equals it in bytes triggers
\* an override while the live setting stays what it was; the run reports
\* changed=true for context class postmaster and changed=false for the
\* reloadable classes, whose recheck finds the raw value unchanged.
C3_SameBytesChangedPostmasterOnly ==
    (Done /\ ~check_mode /\ SameBytesOtherText) =>
        /\ nOverride = 1
        /\ Now.raw_val = res.raw_val
        /\ Reported(kw) = (ctx = "postmaster")

\* 1024MB asked of a postmaster parameter showing 1GB: an override, changed=true
C3_Witness ==
    Done /\ ~check_mode /\ SameBytesOtherText /\ ctx = "postmaster"
         /\ nOverride = 1 /\ Reported(kw)

\* C4: in check mode no override and no reload is issued and the run never
\* reaches the apply or recheck positions; a step of a check-mode run leaves the
\* live setting and the override entry as they were; the result's value is the
\* raw value and unit of the one fetch.
C4_CheckModeChangesNothing ==
    /\ [](check_mode =>
            /\ nOverride = 0 /\ nReload = 0 /\ nFetch <= 1
            /\ pc \notin {"override", "reload", "close", "recheck"}
            /\ (Done => /\ "value" \in kw.keys
                        /\ kw.value = res.raw_val /\ kw.unit = res.unit
                        /\ res = Now))
    /\ [][(check_mode /\ check_mode') => (live' = live /\ auto' = auto)]_vars

\* check mode predicted a change and returned
C4_Witness == Done /\ check_mode /\ Reported(kw) /\ AskedValue

\* C5 (as stated): a run with reset requested, in check or execute mode, that
\* fetched raw_val equal to boot_val reports changed=false and issues no
\* override and no reload.
C5_ResetNoopBothModes ==
    (Done /\ reset /\ res.raw_val = res.boot_val) =>
        (~Reported(kw) /\ nOverride = 0 /\ nReload = 0)

\* C6 (as stated): every result of a run that observed context postmaster has
\* restart_required=true, and every result of a run that observed another
\* context has restart_required=false.
C6_RestartRequiredIffPostmaster ==
    Done => /\ "restart_required" \in kw.keys
            /\ kw.restart_required = (res.context = "postmaster")

\* C7: for context postmaster in execute mode with a literal that differs from
\* the display token, a result comes after exactly one override, no reload and
\* no second fetch, with changed=true and restart_required=true.
C7_PostmasterApply ==
    (Done /\ ~check_mode /\ res.context = "postmaster" /\ AskedValue
          /\ val # res.current_val) =>
        /\ nOverride = 1 /\ nReload = 0 /\ nFetch = 1
        /\ Reported(kw) /\ kw.restart_required

\* a postmaster parameter was overridden and the run returned
C7_Witness ==
    Done /\ ~check_mode /\ res.context = "postmaster" /\ AskedValue
         /\ val # res.current_val /\ nOverride = 1

\* C8: once the fetched context is internal the run has failed with the
\* internal-context error, in check and execute mode, for a value and for a
\* reset, with no override and no reload issued and no result returned.
C8_InternalAlwaysFails ==
    (nFetch >= 1 /\ res.context = "internal") =>
        (pc = "failed" /\ err = "internal" /\ nOverride = 0 /\ nReload = 0)

\* a check-mode reset of an internal parameter failed
C8_Witness ==
    pc = "failed" /\ err = "internal" /\ res.context = "internal" /\ check_mode /\ reset

\* C9 (as stated): a run with value 'default', in any letter case, that returns
\* a result reports changed=true, in check and execute mode, for every
\* changeable context class.
C9_DefaultAlwaysChanged ==
    (Done /\ value.t = "str" /\ StrLower(value.s) = L_default) => Reported(kw)

\* C10 (as stated): every result carries a value; in execute mode it is the raw
\* value of the run's last fetch, in check mode the raw value of its one fetch.
C10_ValueAlwaysReturned ==
    Done => /\ "value" \in kw.keys
            /\ kw.value = (IF nFetch = 2 THEN Now.raw_val ELSE res.raw_val)

\* C11 (as stated): every connection a run opens is closed before the run ends,
\* whether it ends with a result or with a fatal error.
C11_NoConnectionLeftOpen == pc \in {"done", "failed"} => conn = 0

\* C12: on a server older than PG_REQ_VER a run never fetches the parameter and
\* never issues an override or a reload, and what it returns is changed=false,
\* restart_required=false, empty value_pretty and prev_val_pretty, the value
\* {value: "", unit: ""} and the version warning, whatever was asked.
C12_OldVersionShortCircuit ==
    ver < PG_REQ_VER =>
        /\ nFetch = 0 /\ nOverride = 0 /\ nReload = 0
        /\ pc \in {"idle", "connect", "done", "failed"}
        /\ pc = "done" =>
              /\ kw = [keys |-> {"changed", "restart_required", "value_pretty",
                                 "prev_val_pretty", "value"},
                       changed |-> FALSE, restart_required |-> FALSE,
                       value_pretty |-> PyStr(<<>>), prev_val_pretty |-> PyStr(<<>>),
                       value |-> PyStr(<<>>), unit |-> PyStr(<<>>), context |-> ""]
              /\ warn = "version"

\* an execute-mode request for a value on an old server, the parameter being internal
C12_Witness ==
    pc = "done" /\ ver < PG_REQ_VER /\ ~check_mode /\ value # PyNone
                /\ ctx = "internal" /\ warn = "version"

\* C13: a check-mode result for a requested value has changed=false exactly when
\* pretty_to_bytes of the rewritten value equals pretty_to_bytes of the display
\* token; a literal that differs from the token as text and equals it in bytes
\* (1024MB against 1GB) is predicted changed=false although the execute-mode
\* comparison of line 446 on the same state decides to apply it.
C13_CheckModeComparesBytes ==
    (Done /\ check_mode /\ AskedValue) =>
        /\ "changed" \in kw.keys
        /\ kw.changed = (pretty_to_bytes(val) # pretty_to_bytes(res.current_val))
        /\ SameBytesOtherText => (~kw.changed /\ NeedsSet(val, res.current_val))

\* check mode predicted no change for 1024MB against a postmaster parameter showing 1GB
C13_Witness ==
    Done /\ check_mode /\ SameBytesOtherText /\ ~Reported(kw) /\ ctx = "postmaster"

\* C14: a run given both a value and reset, or neither, has failed with the
\* matching error before any connection was opened and before any fetch,
\* override or reload; a run that reaches the first fetch has exactly one of them.
C14_ExactlyOneOfValueAndReset ==
    /\ (pc # "idle" /\ value # PyNone /\ reset) =>
           (pc = "failed" /\ err = "mutually_exclusive" /\ nConn = 0
            /\ nFetch = 0 /\ nOverride = 0 /\ nReload = 0)
    /\ (pc # "idle" /\ value = PyNone /\ ~reset) =>
           (pc = "failed" /\ err = "missing" /\ nConn = 0
            /\ nFetch = 0 /\ nOverride = 0 /\ nReload = 0)
    /\ (pc = "fetch" \/ nFetch >= 1) => ((value # PyNone) # reset)

\* a request with neither was refused before connecting
C14_Witness == pc = "failed" /\ err = "missing" /\ value = PyNone /\ ~reset /\ nConn = 0

\* the number the leading digits of the literal passed spell
ArgNumber == DigitsToNat(LeadingDigits(arg.s))
ArgDigitLed == arg.s # <<>> /\ IsDigitChar(arg.s[1])
ArgEndsWith(sfx) == Len(arg.s) >= Len(sfx) /\ LastN(arg.s, Len(sfx)) = sfx
\* the return value as a number, when it is an integer
RetNumber == ret.mb * Mega + ret.b

\* C15: pretty_to_bytes returns the empty literal and a literal that does not
\* start with a digit unchanged; for a literal with leading digits n that ends
\* in kB, MB, GB, TB or another B it returns n*1024, n*1024^2, n*1024^3,
\* n*1024^4 or n (n = 0 included); a literal that starts with a digit and ends
\* in a letter that closes no such suffix is returned unchanged.
C15_PrettyToBytes ==
    ret # Pending =>
        /\ ~ArgDigitLed => ret = arg
        /\ (ArgDigitLed /\ ArgEndsWith(<<"k", "B">>)) =>
               (ret.t = "int" /\ RetNumber = ArgNumber * 1024)
        /\ (ArgDigitLed /\ ArgEndsWith(<<"M", "B">>)) => ret = PyInt(ArgNumber, 0)
        /\ (ArgDigitLed /\ ArgEndsWith(<<"G", "B">>)) => ret = PyInt(ArgNumber * 1024, 0)
        /\ (ArgDigitLed /\ ArgEndsWith(<<"T", "B">>)) =>
               ret = PyInt(ArgNumber * 1024 * 1024, 0)
        /\ (ArgDigitLed /\ ArgEndsWith(<<"B">>)
              /\ \A u \in Range(UnitLadder) : ~ArgEndsWith(<<u, "B">>)) =>
               (ret.t = "int" /\ RetNumber = ArgNumber)
        /\ (ArgDigitLed /\ IsAlphaChar(arg.s[Len(arg.s)]) /\ ~ArgEndsWith(<<"B">>)) =>
               ret = arg

\* 10GB was passed and 10 * 1024^3 came back
C15_Witness ==
    arg = PyStr(<<"1", "0", "G", "B">>) /\ ret = PyInt(10 * 1024, 0)

\* the run is about to make, or has made, its second fetch
SecondFetch == pc = "recheck" \/ nFetch = 2

\* C16 (as stated): the second fetch of a run is made only for a reloadable
\* context class and only after an override was issued in the same run; an
\* execute-mode run whose decision is no-op makes no second fetch.
C16_SecondFetchOnlyAfterOverride ==
    SecondFetch => (IsReloadable(ctx) /\ nOverride = 1)

\* C16 (amended): the second fetch of a run is made only for a reloadable
\* context class, only in execute mode, only after the first connection is
\* closed and never after a reset that found nothing to change; when the run
\* had to change the setting it comes after a successful override and reload,
\* and an execute-mode run for a value equal to the current display token
\* issues no command and still makes the second fetch before it returns.
C16_SecondFetchWhen ==
    /\ SecondFetch =>
           /\ IsReloadable(ctx) /\ ~check_mode /\ nFetch >= 1
           /\ pc = "recheck" => conn = 0
           /\ IF NeedsSet(val, res.current_val) \/ reset
              THEN nOverride = 1 /\ nReload = 1
              ELSE nOverride = 0 /\ nReload = 0
           /\ reset => ~ResetNoop(res.raw_val, res.boot_val)
    /\ (Done /\ ~check_mode /\ IsReloadable(ctx) /\ AskedValue) => nFetch = 2

\* a run for the value the server already shows made the second fetch
C16_Witness ==
    /\ Done /\ ~check_mode /\ IsReloadable(ctx) /\ AskedValue
    /\ ~NeedsSet(val, res.current_val) /\ nOverride = 0 /\ nFetch = 2

\* C17: after a successful execute-mode reset of a reloadable parameter whose
\* raw value differed from its boot value (kB and MB parameters included), the
\* state read after the override and the reload has raw value equal to boot
\* value, so a reset run that follows at once finds nothing to change.
C17_ResetRestoresBootValue ==
    (Done /\ ~check_mode /\ reset /\ IsReloadable(ctx) /\ nOverride = 1 /\ nFetch = 2)
        => /\ Now.raw_val = Now.boot_val
           /\ ResetNoop(Now.raw_val, Now.boot_val)

\* C18: a run issues at most one override and at most one reload; the reload
\* comes only directly after a successful override and only when the context
\* is not postmaster; when a fetch, the override or the reload fails the run
\* stops there with an error: the failing step changes nothing on the server,
\* no command follows it (no reload after a failed override, no second fetch;
\* the next step is a restart of the server or the start of another run) and
\* no result with a changed flag is built.
C18_FailFastNoRetry ==
    /\ [](/\ nOverride <= 1 /\ nReload <= nOverride /\ nFetch <= 2
          /\ nReload = 1 => ctx # "postmaster"
          /\ pc = "reload" => (nOverride = 1 /\ nReload = 0 /\ ctx # "postmaster")
          /\ pc = "failed" =>
                 /\ err # "" /\ "changed" \notin kw.keys
                 /\ err = "unable_to_set" => (nReload = 0 /\ nFetch = 1)
                 /\ err = "unable_to_get" => (nFetch = 0 => nOverride = 0))
    /\ [][/\ pc' = "override" => pc = "fetch"
          /\ pc = "override" => pc' \in {"reload", "close", "failed"}
          /\ pc' = "reload" => (pc = "override" /\ nOverride' = nOverride + 1)
          /\ pc = "reload" => pc' \in {"close", "failed"}
          /\ pc' = "recheck" => pc = "close"
          /\ (~Terminal /\ pc' = "failed") =>
                 /\ server' = server /\ nOverride' = nOverride /\ nReload' = nReload
                 /\ err' \in {"connect", "unable_to_get", "unable_to_set"} =>
                        nFetch' = nFetch
          /\ pc = "failed" => /\ pc' \in {"idle", "connect", "failed"}
                              /\ nFetch' = 0 /\ nOverride' = 0 /\ nReload' = 0
                              /\ auto' = auto]_vars

\* the reload failed after the override had succeeded, and the run stopped
C18_Witness ==
    pc = "failed" /\ err = "unable_to_set" /\ nOverride = 1 /\ nReload = 0
         /\ ctx # "postmaster"

\* C19: an execute-mode result with changed=true comes only from a run that
\* issued an override; every execute-mode run that issued none reports
\* changed=false (the server is changed by nothing else during a run).
C19_ChangedOnlyAfterOverride ==
    (pc = "done" /\ ~check_mode) =>
        /\ Reported(kw) => nOverride = 1
        /\ nOverride = 0 => (~Reported(kw) /\ (nFetch >= 1 => Now = res))

\* a run for the value the server already had read it twice, issued nothing
\* and reported changed=false
C19_Witness ==
    /\ pc = "done" /\ ~check_mode /\ value # PyNone /\ nOverride = 0 /\ nFetch = 2
    /\ "changed" \in kw.keys /\ ~kw.changed /\ kind = "bool"

====
